---- MODULE Spec2Model ----
(***************************************************************************)
(* Soil Scout (src/app.py): a Streamlit script that draws Earth Engine     *)
(* overlays on a folium map and prints an AOI summary.                     *)
(*                                                                         *)
(* Rasters are finite grids of pixels.  Reals are fixed point:             *)
(*   slope               hundredths of a degree   (5.14 deg   = 514)       *)
(*   sin                 1e-4                     (sin 10 deg = 1736)      *)
(*   S                   1e-5                     (0.03       = 3000)      *)
(*   K                   1e-2                     (0.28       = 28)        *)
(*   NDVI, C             1e-1                     (0.6        = 6)         *)
(*   NDWI                1e-2                     (0.2        = 20)        *)
(*   water %             1e-2                     (50.0 %     = 5000)      *)
(*   raw product, p95    1e-6, truncated          (1e-6       = 1)         *)
(*   risk, mean risk     1e-3, truncated          (0.33       = 330)       *)
(* A pixel of an image is a record [ok, v]: ok = FALSE is a masked (no     *)
(* data) pixel, which Earth Engine leaves out of every region reduction.   *)
(***************************************************************************)
EXTENDS Integers, FiniteSets, Sequences, TLC

VARIABLES
    pc,          \* position of the script run
    slope_deg,   \* ee.Terrain.slope(dem): pixel -> hundredths of a degree
    tex,         \* soil_texture_12(aoi): pixel -> class number
    ndvi_img,    \* NDVI raster handed to erosion_risk_layer: pixel -> tenths
    cover,       \* pixel -> twentieths of the pixel that lie inside the AOI
    risk_img,    \* erosion_risk_layer's locals and its image, evaluated
    mean_risk,   \* AOI summary: reduceRegion mean of the risk (or null)
    rating,      \* AOI summary: "Low" / "Moderate" / "High" ("" when unset)
    rows,        \* AOI summary table rows
    show,        \* sidebar checkboxes (show_ndvi, show_ndwi, ...)
    s2_img,      \* Sentinel-2 composite, or "None"
    ndwi_img,    \* NDWI raster (10 m pixels of equal area): pixel -> hundredths
    water,       \* pixels the "Water mask (NDWI>0.2)" overlay paints
    water_pct,   \* compute_water_pct's result (or None)
    s2_count,    \* Sentinel-2 scenes found for the AOI and date window
    s1_count,    \* Sentinel-1 scenes found
    have,        \* which of ndvi_img, ndwi_img, sar_vv_img, risk_img are not None
    layers,      \* names of the overlays added to the folium map
    warnings,    \* st.warning / st.error messages shown
    map_rendered,\* st_folium was called
    sample_pt,   \* the marker extract_draw found, or None
    uncaught,    \* the exception that ended the script run, or "none"
    fails,       \* Earth Engine calls that have failed in this run
    session,     \* st.session_state: "center" and "aoi_geojson"
    box_m,       \* the "AOI box half-size (meters)" slider
    out,         \* what st_folium returns: the draw widget's state
    new_aoi,     \* the polygon extract_draw found, or None
    trigger,     \* what started this script run
    dates_ok,    \* the sidebar's Start date is before its End date
    aoi_reruns   \* reruns asked by the AOI block since the user last acted

rasterVars == <<slope_deg, tex, ndvi_img, cover, ndwi_img>>
riskVars == <<risk_img, mean_risk, rating>>
waterVars == <<water, water_pct>>
uiVars == <<show, s2_count, s1_count>>
mapVars == <<have, layers, warnings>>
sessVars == <<session, box_m, out, new_aoi, trigger, dates_ok, aoi_reruns>>
vars == <<pc, rasterVars, riskVars, waterVars, rows, uiVars, s2_img, mapVars,
          map_rendered, sample_pt, uncaught, fails, sessVars>>

\* ------------------------------------------------------------------ bounds
NumCells == 2
Cells == 1..NumCells

SlopeVals == {0, 513, 514, 1000}
TexVals == {4, 6, 13}
NdviVals == {-5, 6, 15}
\* an AOI-edge pixel (1/20 inside) or a pixel fully inside (20/20)
CoverVals == {1, 20}

NumWaterCells == 4
WaterCells == 1..NumWaterCells
NdwiVals == {-50, 10, 20, 25, 90}

\* Earth Engine calls that may fail (outage, quota, bad request) in one run
MaxFailures == 1
MaxScenes == 1

\* all_drawings holds at most MaxDrawings features
MaxDrawings == 6
\* the count of reruns stops at MaxReruns
MaxReruns == 3
\* in a session the user keeps at most MaxKept drawings on the map
MaxKept == 2

\* ------------------------------------------------------------- arithmetic
Max(a, b) == IF a >= b THEN a ELSE b
Min(a, b) == IF a <= b THEN a ELSE b

Px(x) == [ok |-> TRUE, v |-> x]
NoDataPx == [ok |-> FALSE, v |-> 0]
Null == [ok |-> FALSE, v |-> 0]

RECURSIVE SumOver(_, _)
SumOver(f, D) ==
    IF D = {} THEN 0
    ELSE LET x == CHOOSE y \in D : TRUE IN f[x] + SumOver(f, D \ {x})

\* ------------------------------------------------- erosion_risk_layer
\* slope_deg.multiply(pi / 180).sin(), 1e-4, rounded to nearest
theta(sd) ==
    CASE sd = 0 -> 0
      [] sd = 513 -> 894
      [] sd = 514 -> 896
      [] sd = 1000 -> 1736

s_low(sd) == theta(sd) * 108 + 3000
s_high(sd) == theta(sd) * 168 - 50000

S_gt(sd) == Max(IF sd > 514 THEN s_high(sd) ELSE s_low(sd), 0)
S(sd) == Max(IF sd >= 514 THEN s_high(sd) ELSE s_low(sd), 0)

k_values == <<28, 20, 15, 32, 38, 40, 25, 22, 26, 17, 20, 15>>

\* tex.remap(list(range(1,13)), k_values): no default value, so a class that
\* is not in the from-list gives a masked pixel
K_default0(t) == IF t \in 1..12 THEN Px(k_values[t]) ELSE Px(0)
K(t) == IF t \in 1..12 THEN Px(k_values[t]) ELSE NoDataPx

\* ndvi_img.where(ndvi_img.lt(0), 0).where(ndvi_img.gt(1), 1)
ndvi_clamped_lo(n) == IF n < 0 THEN 0 ELSE n
ndvi_clamped(n) ==
    LET a == IF n < 0 THEN 0 ELSE n
    IN IF n > 10 THEN 10 ELSE a

C(n) == 10 - ndvi_clamped(n)

\* S.multiply(K).multiply(C): masked where a factor is masked
risk_divK(sd, t, n) ==
    IF K(t).ok /\ n.ok THEN Px((S(sd) * C(n.v)) \div K(t).v) ELSE NoDataPx
risk(sd, t, n) ==
    IF K(t).ok /\ n.ok THEN Px((S(sd) * K(t).v * C(n.v)) \div 100) ELSE NoDataPx

Valid(img) == {c \in Cells : img[c].ok}

\* ee.Reducer.percentile([q]) over the AOI: the smallest valid value whose
\* cumulative pixel weight reaches q% of the total; null with no valid pixel
Percentile(img, q) ==
    LET V == Valid(img)
        total == SumOver(cover, V)
        cum(x) == SumOver(cover, {c \in V : img[c].v <= x})
        reach == {img[c].v : c \in {d \in V : 100 * cum(img[d].v) >= q * total}}
    IN IF V = {} THEN Null
       ELSE Px(CHOOSE x \in reach : \A y \in reach : x <= y)

\* p95.max(ee.Number(1e-6))
Divisor_nofloor(p) == p
Divisor(p) == Max(p, 1)

\* risk.divide(d).clamp(0, 1), 1e-3
Normalize_noclamp(raw, d) == IF d = 0 THEN 1000 ELSE (raw * 1000) \div d
Normalize(raw, d) ==
    IF raw >= d THEN 1000
    ELSE IF raw <= 0 THEN 0
    ELSE (raw * 1000) \div d

\* The locals of erosion_risk_layer and the image it returns, evaluated.
\* With a null percentile Number.max has no left operand and Earth Engine
\* rejects the computation, so evaluating the image raises.
erosion_risk_layer_null0(sl, tx, nd) ==
    LET raw == [c \in Cells |-> risk(sl[c], tx[c], nd[c])]
        p == Percentile(raw, 95)
        d == Divisor(p.v)
    IN [err |-> "none", p95 |-> p, d |-> Px(d), raw |-> raw,
        S |-> [c \in Cells |-> S(sl[c])],
        K |-> [c \in Cells |-> K(tx[c])],
        C |-> [c \in Cells |-> IF nd[c].ok THEN Px(C(nd[c].v)) ELSE NoDataPx],
        img |-> [c \in Cells |->
                   IF raw[c].ok THEN Px(Normalize(raw[c].v, d)) ELSE NoDataPx]]
erosion_risk_layer(sl, tx, nd) ==
    LET raw == [c \in Cells |-> risk(sl[c], tx[c], nd[c])]
        p95 == Percentile(raw, 95)
        d == Divisor(p95.v)
        locals == [S |-> [c \in Cells |-> S(sl[c])],
                   K |-> [c \in Cells |-> K(tx[c])],
                   C |-> [c \in Cells |->
                            IF nd[c].ok THEN Px(C(nd[c].v)) ELSE NoDataPx],
                   raw |-> raw, p95 |-> p95]
    IN IF ~p95.ok
       THEN locals @@ [err |-> "EEException", d |-> Null,
                       img |-> [c \in Cells |-> NoDataPx]]
       ELSE locals @@ [err |-> "none", d |-> Px(d),
                       img |-> [c \in Cells |->
                                  IF raw[c].ok
                                  THEN Px(Normalize(raw[c].v, d))
                                  ELSE NoDataPx]]

\* ----------------------------------------------- AOI summary, erosion
\* reduceRegion(ee.Reducer.mean()): pixel-weighted mean of the valid pixels,
\* null when there is none
Mean(img) ==
    LET V == Valid(img)
        total == SumOver(cover, V)
        sum == SumOver([c \in Cells |-> cover[c] * img[c].v], V)
    IN IF V = {} THEN Null ELSE Px(sum \div total)

Rating_gt(m) ==
    IF m > 660 THEN "High" ELSE IF m > 330 THEN "Moderate" ELSE "Low"
Rating(m) ==
    IF m >= 660 THEN "High" ELSE IF m >= 330 THEN "Moderate" ELSE "Low"

\* round(float(mean_risk), 2): 1e-3 to 1e-2, ties to even
Round2(m) ==
    LET q == m \div 10
        r == m % 10
    IN IF r > 5 \/ (r = 5 /\ q % 2 = 1) THEN q + 1 ELSE q

\* ------------------------------------------------------- water mask
\* the default of compute_water_pct's thresh, which its one caller also passes
thresh_default == 20

\* ee.Image.gt: 1 where the pixel exceeds x, 0 elsewhere, masked where masked
gt_or_equal(img, x) ==
    [c \in DOMAIN img |-> IF img[c].ok THEN Px(IF img[c].v >= x THEN 1 ELSE 0) ELSE NoDataPx]
gt(img, x) ==
    [c \in DOMAIN img |-> IF img[c].ok THEN Px(IF img[c].v > x THEN 1 ELSE 0) ELSE NoDataPx]

\* ee.Image.selfMask: masks the pixels whose value is 0
selfMask(img) ==
    [c \in DOMAIN img |-> IF img[c].ok /\ img[c].v # 0 THEN img[c] ELSE NoDataPx]

\* build_map_and_layers: water = ndwi_img.gt(0.2).selfMask()
water_overlay(ndwi) == selfMask(gt(ndwi, 20))

\* round(x, 2) of x = 100 * w / a, in hundredths of a percent, ties to even
RoundRatio(num, den) ==
    LET q == num \div den
        r == num % den
    IN IF 2 * r > den \/ (2 * r = den /\ q % 2 = 1) THEN q + 1 ELSE q

\* compute_water_pct: the summed area of the water pixels over the summed
\* area of the AOI; None when either sum is missing or zero
compute_water_pct_gte(ndwi, thresh) ==
    LET m == gt_or_equal(ndwi, thresh)
        w_val == Cardinality({c \in DOMAIN ndwi : m[c].ok /\ m[c].v # 0})
        a_val == Cardinality(DOMAIN ndwi)
    IN IF w_val # 0 /\ a_val # 0 /\ a_val > 0
       THEN Px(RoundRatio(10000 * w_val, a_val))
       ELSE Null
compute_water_pct(ndwi, thresh) ==
    LET m == gt(ndwi, thresh)
        \* area_img.updateMask(water): a pixel counts where the mask is non-zero
        w_val == Cardinality({c \in DOMAIN ndwi : m[c].ok /\ m[c].v # 0})
        a_val == Cardinality(DOMAIN ndwi)
    IN IF w_val # 0 /\ a_val # 0 /\ a_val > 0
       THEN Px(RoundRatio(10000 * w_val, a_val))
       ELSE Null

\* --------------------------------------------------- NDVI statistics
\* ee.Reducer.stdDev(), truncated to the resolution of the raster
StdDev(img) ==
    LET V == Valid(img)
        total == SumOver(cover, V)
        m == SumOver([c \in Cells |-> cover[c] * img[c].v], V) \div total
        var == SumOver([c \in Cells |-> cover[c] * (img[c].v - m) * (img[c].v - m)], V)
                   \div total
    IN CHOOSE r \in 0..30 : r * r <= var /\ var < (r + 1) * (r + 1)

\* reduce_stats(image, geom).getInfo(): every statistic is None when the AOI
\* holds no valid pixel of the image
reduce_stats(img) ==
    IF Valid(img) = {}
    THEN [NDVI_mean |-> Null, NDVI_stdDev |-> Null, NDVI_p10 |-> Null,
          NDVI_p50 |-> Null, NDVI_p90 |-> Null]
    ELSE [NDVI_mean |-> Mean(img), NDVI_stdDev |-> Px(StdDev(img)),
          NDVI_p10 |-> Percentile(img, 10), NDVI_p50 |-> Percentile(img, 50),
          NDVI_p90 |-> Percentile(img, 90)]

\* ------------------------------------------------- session defaults
\* Coordinates are in 1e-5 degree, lengths in metres, cosines in 1e-4.
default_center == <<3760000, -12090000>>

\* math.cos(math.radians(center_lat)) at the latitudes used
cos4(lat) ==
    CASE lat = 3760000 -> 7923
      [] lat = 9000000 -> 0
      [] OTHER -> 10000     \* within a degree of the equator

\* a Python dict that is a GeoJSON geometry: its keys in insertion order,
\* the value of "type" ("" when the key is absent), and its coordinates
GeomDict(ks, t, cs) ==
    [py |-> "dict", keys |-> ks, type |-> t, coordinates |-> cs,
     geometry |-> [py |-> "absent", keys |-> <<>>, type |-> "", coordinates |-> <<>>]]

default_aoi_box(center_lat, center_lon, half_m) ==
    LET lat_deg == (half_m * 100000) \div 110540
        lon_deg == (((half_m * 100000) \div 111320) * 10000)
                       \div Max(1, cos4(center_lat))
        ring == << <<center_lon - lon_deg, center_lat - lat_deg>>,
                   <<center_lon - lon_deg, center_lat + lat_deg>>,
                   <<center_lon + lon_deg, center_lat + lat_deg>>,
                   <<center_lon + lon_deg, center_lat - lat_deg>>,
                   <<center_lon - lon_deg, center_lat - lat_deg>> >>
    IN GeomDict(<<"type", "coordinates">>, "Polygon", ring)

\* ------------------------------------------------------ draw output
\* Python values as records: py is the Python type; a dict carries its keys,
\* its "type" and "coordinates" values and its "geometry" value.
None == [py |-> "None", keys |-> <<>>, type |-> "", coordinates |-> <<>>,
         geometry |-> [py |-> "absent", keys |-> <<>>, type |-> "", coordinates |-> <<>>]]
NotADict == [None EXCEPT !.py = "str"]

\* {"type": "Feature", "geometry": g}
Feature(g) ==
    [py |-> "dict", keys |-> <<"type", "geometry">>, type |-> "Feature",
     coordinates |-> <<>>,
     geometry |-> [py |-> g.py, keys |-> g.keys, type |-> g.type,
                   coordinates |-> g.coordinates]]

HasKey(d, k) == \E i \in 1..Len(d.keys) : d.keys[i] = k

\* bool(x) of a dict or None
Truthy(x) == x.py = "dict" /\ x.keys # <<>>

_get_geom_from_feature(feat) ==
    IF feat.py # "dict" THEN None
    ELSE IF HasKey(feat, "type") /\ feat.type = "Feature"
    THEN IF HasKey(feat, "geometry") /\ feat.geometry.py = "dict"
         THEN GeomDict(feat.geometry.keys, feat.geometry.type, feat.geometry.coordinates)
         ELSE None
    ELSE IF HasKey(feat, "type") THEN feat ELSE None

PolygonTypes_any == {"Polygon", "MultiPolygon", "Point"}
PolygonTypes == {"Polygon", "MultiPolygon"}

\* geom.get("type")
TypeOf(geom) == IF HasKey(geom, "type") THEN geom.type ELSE "<None>"

\* out.get(key) if isinstance(out, dict) else None
OutGet(o, key) ==
    IF o.py # "dict" THEN None
    ELSE IF key = "last_drawn_feature" THEN o.last_drawn_feature
    ELSE o.last_active_drawing

\* the first loop of extract_draw: one key, from the state st = [new_aoi,
\* sample_pt, done]; done after the break
KeyStep(st, o, key) ==
    LET geom == _get_geom_from_feature(OutGet(o, key))
    IN IF st.done \/ ~Truthy(geom) THEN st
       ELSE IF TypeOf(geom) \in PolygonTypes
            THEN [st EXCEPT !.new_aoi = geom, !.done = TRUE]
       ELSE IF TypeOf(geom) = "Point"
            THEN [st EXCEPT !.sample_pt = geom]
       ELSE st

\* all_drawings[-5:]
LastFive_whole(items) == items
LastFive(items) ==
    IF Len(items) <= 5 THEN items ELSE SubSeq(items, Len(items) - 4, Len(items))

\* the second loop: "for feat in reversed(all_drawings[-5:])", from index i down
RECURSIVE ListLoop(_, _, _)
ListLoop(st, items, i) ==
    IF i = 0 THEN st
    ELSE LET geom == _get_geom_from_feature(items[i])
             t == TypeOf(geom)
             st1 == IF Truthy(geom) /\ t \in PolygonTypes /\ st.new_aoi = None
                    THEN [st EXCEPT !.new_aoi = geom] ELSE st
             st2 == IF Truthy(geom) /\ t = "Point" /\ st1.sample_pt = None
                    THEN [st1 EXCEPT !.sample_pt = geom] ELSE st1
         IN ListLoop(st2, items, i - 1)

\* extract_draw(out): [err, new_aoi, sample_pt]; err is the exception raised.
\* all_drawings may be a list, None or empty (then []), a string (whose
\* characters are not dicts), or another true value, which cannot be sliced.
extract_draw(o) ==
    LET st0 == [new_aoi |-> None, sample_pt |-> None, done |-> FALSE]
        st2 == KeyStep(KeyStep(st0, o, "last_drawn_feature"), o, "last_active_drawing")
        r == [err |-> "none", new_aoi |-> st2.new_aoi, sample_pt |-> st2.sample_pt]
    IN IF o.py # "dict" \/ o.all_drawings.py \in {"None", "str"} THEN r
       ELSE IF o.all_drawings.py # "list" THEN [r EXCEPT !.err = "TypeError"]
       ELSE LET l5 == LastFive(o.all_drawings.items)
                st3 == ListLoop(st2, l5, Len(l5))
            IN [err |-> "none", new_aoi |-> st3.new_aoi, sample_pt |-> st3.sample_pt]

\* the draw output st_folium returns
NoList == [py |-> "None", items |-> <<>>]
List(fs) == [py |-> "list", items |-> fs]
Out(ldf, lad, ad) ==
    [py |-> "dict", last_drawn_feature |-> ldf, last_active_drawing |-> lad,
     all_drawings |-> ad]
NoDrawings == Out(None, None, NoList)

\* "draw_out or {}"
OrEmpty(o) == IF o.py = "None" THEN [NoDrawings EXCEPT !.py = "dict"] ELSE o

\* a rectangle drawn at (x, y) with side w: a closed ring
Ring(x, y, w) == << <<x, y>>, <<x, y + w>>, <<x + w, y + w>>, <<x + w, y>>, <<x, y>> >>
TC == <<"type", "coordinates">>
PolyA == GeomDict(TC, "Polygon", Ring(100, 100, 100))
PolyB == GeomDict(TC, "Polygon", Ring(300, 300, 100))
PolyC == GeomDict(TC, "Polygon", Ring(500, 100, 100))
\* PolyA with its keys in the other order
PolyA_ct == GeomDict(<<"coordinates", "type">>, "Polygon", Ring(100, 100, 100))
MultiPolyM == GeomDict(TC, "MultiPolygon", Ring(700, 100, 100))
PointP == GeomDict(TC, "Point", << <<150, 150>> >>)
PointQ == GeomDict(TC, "Point", << <<350, 350>> >>)
LineL == GeomDict(TC, "LineString", << <<100, 100>>, <<200, 200>> >>)
Untyped == GeomDict(<<"coordinates">>, "", << <<100, 100>> >>)
EmptyDict == GeomDict(<<>>, "", <<>>)
FeatureNoGeometry == [Feature(None) EXCEPT !.keys = <<"type">>]

\* values of every shape for one entry of the draw output
AnyFeature ==
    {None, NotADict, Feature(PolyA), Feature(PointP), Feature(LineL),
     Feature(None), FeatureNoGeometry, Feature(EmptyDict), Feature(Untyped),
     MultiPolyM, PointQ, Untyped}

\* draw outputs of every shape, also ones st_folium would not produce
AnyOut ==
    {[NoDrawings EXCEPT !.py = t] : t \in {"None", "str"}}
        \cup {Out(a, b, ad) : a, b \in AnyFeature,
                              ad \in {NoList} \cup {[py |-> t, items |-> <<>>] : t \in {"str", "dict", "int"}}
                                        \cup {List(<<>>)} \cup {List(<<f>>) : f \in AnyFeature}}

\* what the user can draw: rectangles and markers
Drawable == {Feature(PolyA), Feature(PolyB), Feature(PointP)}
RECURSIVE SeqsUpTo(_, _)
SeqsUpTo(Elems, n) ==
    IF n = 0 THEN {<<>>}
    ELSE LET shorter == SeqsUpTo(Elems, n - 1)
         IN shorter \cup {Append(q, e) : q \in {x \in shorter : Len(x) = n - 1}, e \in Elems}

\* draw outputs the widget produces: up to MaxDrawings drawings
WidgetOut ==
    {Out(a, b, List(ds)) : a, b \in {None, Feature(PolyC), Feature(PointQ)},
                           ds \in SeqsUpTo(Drawable, MaxDrawings)}

\* json.dumps(a, sort_keys=True): the keys sorted, each with its value
SortedKeys(ks) ==
    LET has(k) == \E i \in 1..Len(ks) : ks[i] = k
    IN (IF has("coordinates") THEN <<"coordinates">> ELSE <<>>)
           \o (IF has("geometry") THEN <<"geometry">> ELSE <<>>)
           \o (IF has("type") THEN <<"type">> ELSE <<>>)

dumps(a) == [a EXCEPT !.keys = SortedKeys(a.keys)]

\* the except clause of geojson_equal
geojson_equal_raised(a, b) == FALSE
geojson_equal(a, b) == dumps(a) = dumps(b)

\* ---------------------------------------------------------- the run
NoneHeld == [ndvi |-> FALSE, ndwi |-> FALSE, sar_vv |-> FALSE, risk |-> FALSE]

\* what one guarded Earth Engine step can do: succeed, fail inside
\* ee_tilelayer (which warns and returns None), or raise into the block's own
\* except clause; a failure uses up one of the run's MaxFailures
Outcomes == IF fails < MaxFailures THEN {"ok", "tile_failed", "raised"} ELSE {"ok"}
TileOutcomes == IF fails < MaxFailures THEN {"ok", "tile_failed"} ELSE {"ok"}
CallOutcomes == IF fails < MaxFailures THEN {"ok", "raised"} ELSE {"ok"}
Cost(o) == IF o = "ok" THEN 0 ELSE 1

\* ee_tilelayer(image, vis, name) followed by "if layer: layer.add_to(fmap)"
AddTile(ls, o, name) == IF o = "ok" THEN ls \cup {name} ELSE ls
TileWarning(ws, o, name) ==
    IF o = "tile_failed" THEN ws \cup {<<"Failed to build EE tile", name>>} ELSE ws

\* build_map_and_layers up to the overlays: AOI outline, scene counts (0 when
\* the count fails), Sentinel-2 median composite
SceneCounts(from, to) ==
    /\ pc = from
    /\ pc' = to
    /\ \E n2, n1 \in 0..MaxScenes : \E t \in TileOutcomes : \E o \in CallOutcomes :
          /\ n2 = 0 => o = "ok"
          /\ fails + Cost(t) + Cost(o) <= MaxFailures
          /\ fails' = fails + Cost(t) + Cost(o)
          /\ layers' = AddTile(layers, t, "AOI outline")
          /\ s2_count' = n2
          /\ s1_count' = n1
          /\ s2_img' = IF n2 > 0 /\ o = "ok" THEN "img" ELSE "None"
          /\ warnings' = IF o = "raised"
                         THEN TileWarning(warnings, t, "AOI outline")
                                  \cup {<<"S2 retrieval failed">>}
                         ELSE TileWarning(warnings, t, "AOI outline")
    /\ UNCHANGED <<rasterVars, riskVars, waterVars, rows, show, have,
                   map_rendered, sample_pt, sessVars, uncaught>>

\* "if s2_img is not None and show_ndvi: try: ... except: st.warning(...)"
NdviBlock(from, to) ==
    /\ pc = from
    /\ pc' = to
    /\ IF s2_img # "None" /\ show.ndvi
       THEN \E o \in Outcomes :
              /\ fails' = fails + Cost(o)
              /\ have' = IF o = "raised" THEN have ELSE [have EXCEPT !.ndvi = TRUE]
              /\ layers' = AddTile(layers, o, "NDVI")
              /\ warnings' = IF o = "raised"
                             THEN warnings \cup {<<"NDVI layer failed">>}
                             ELSE TileWarning(warnings, o, "NDVI")
       ELSE UNCHANGED <<fails, have, layers, warnings>>
    /\ UNCHANGED <<rasterVars, riskVars, waterVars, rows, uiVars, s2_img,
                   map_rendered, sample_pt, sessVars, uncaught>>

\* "if s2_img is not None and (show_ndwi or show_water): try: ... except: ..."
NdwiWaterBlock(from, to) ==
    /\ pc = from
    /\ pc' = to
    /\ IF s2_img # "None" /\ (show.ndwi \/ show.water)
       THEN \E o \in CallOutcomes : \E t1, t2 \in TileOutcomes :
              /\ (o = "raised" \/ ~show.ndwi) => t1 = "ok"
              /\ (o = "raised" \/ ~show.water) => t2 = "ok"
              /\ fails + Cost(o) + Cost(t1) + Cost(t2) <= MaxFailures
              /\ fails' = fails + Cost(o) + Cost(t1) + Cost(t2)
              /\ IF o = "raised"
                 THEN /\ warnings' = warnings \cup {<<"NDWI/Water layer failed">>}
                      /\ UNCHANGED <<have, layers, water>>
                 ELSE /\ have' = [have EXCEPT !.ndwi = TRUE]
                      /\ layers' =
                            LET l1 == IF show.ndwi THEN AddTile(layers, t1, "NDWI") ELSE layers
                            IN IF show.water THEN AddTile(l1, t2, "Water mask (NDWI>0.2)") ELSE l1
                      /\ warnings' =
                            TileWarning(TileWarning(warnings, t1, "NDWI"),
                                        t2, "Water mask (NDWI>0.2)")
                      /\ water' = IF show.water
                                  THEN {c \in WaterCells : water_overlay(ndwi_img)[c].ok}
                                  ELSE water
       ELSE UNCHANGED <<fails, have, layers, warnings, water>>
    /\ UNCHANGED <<rasterVars, riskVars, water_pct, rows, uiVars, s2_img,
                   map_rendered, sample_pt, sessVars, uncaught>>

\* "if show_sar_vv and s1_count > 0: try: ... except: st.warning(...)";
\* dynamic_sar_vis calls getInfo() and float() inside the try
SarBlock(from, to) ==
    /\ pc = from
    /\ pc' = to
    /\ IF show.sar_vv /\ s1_count > 0
       THEN \E o \in Outcomes :
              /\ fails' = fails + Cost(o)
              /\ have' = [have EXCEPT !.sar_vv = TRUE]
              /\ layers' = AddTile(layers, o, "SAR VV")
              /\ warnings' = IF o = "raised"
                             THEN warnings \cup {<<"SAR VV failed">>}
                             ELSE TileWarning(warnings, o, "SAR VV")
       ELSE UNCHANGED <<fails, have, layers, warnings>>
    /\ UNCHANGED <<rasterVars, riskVars, waterVars, rows, uiVars, s2_img,
                   map_rendered, sample_pt, sessVars, uncaught>>

\* "if show_soil_texture or show_soil_boundaries: try: ... except: ..."
SoilBlock(from, to) ==
    /\ pc = from
    /\ pc' = to
    /\ IF show.soil_texture \/ show.soil_boundaries
       THEN \E o \in CallOutcomes : \E t1, t2 \in TileOutcomes :
              /\ (o = "raised" \/ ~show.soil_texture) => t1 = "ok"
              /\ (o = "raised" \/ ~show.soil_boundaries) => t2 = "ok"
              /\ fails + Cost(o) + Cost(t1) + Cost(t2) <= MaxFailures
              /\ fails' = fails + Cost(o) + Cost(t1) + Cost(t2)
              /\ IF o = "raised"
                 THEN /\ warnings' = warnings \cup {<<"Soil layers failed">>}
                      /\ UNCHANGED layers
                 ELSE /\ layers' =
                            LET l1 == IF show.soil_texture
                                      THEN AddTile(layers, t1, "Soil texture (USDA 12)")
                                      ELSE layers
                            IN IF show.soil_boundaries
                               THEN AddTile(l1, t2, "Soil boundaries")
                               ELSE l1
                      /\ warnings' =
                            TileWarning(TileWarning(warnings, t1, "Soil texture (USDA 12)"),
                                        t2, "Soil boundaries")
       ELSE UNCHANGED <<fails, layers, warnings>>
    /\ UNCHANGED <<rasterVars, riskVars, waterVars, rows, uiVars, s2_img, have,
                   map_rendered, sample_pt, sessVars, uncaught>>

\* "if show_erosion and s2_img is not None: try: risk_img =
\* erosion_risk_layer(...); layer = ee_tilelayer(...) ... except: ...".
\* An image that cannot be evaluated is rejected either by getMapId (caught
\* in ee_tilelayer) or only when the browser fetches its tiles.
ErosionBlock(from, to) ==
    /\ pc = from
    /\ pc' = to
    /\ IF show.erosion /\ s2_img # "None"
       THEN \E o \in Outcomes \cup {"tile_failed"} :
              LET r == erosion_risk_layer(slope_deg, tex, ndvi_img)
                  cost == IF r.err # "none" /\ o = "tile_failed" THEN 0 ELSE Cost(o)
              IN /\ fails + cost <= MaxFailures
                 /\ fails' = fails + cost
                 /\ IF o = "raised"
                    THEN /\ warnings' = warnings \cup {<<"Erosion risk failed">>}
                         /\ UNCHANGED <<risk_img, have, layers>>
                    ELSE /\ risk_img' = r
                         /\ have' = [have EXCEPT !.risk = TRUE]
                         /\ layers' = AddTile(layers, o, "Erosion risk (relative)")
                         /\ warnings' = TileWarning(warnings, o, "Erosion risk (relative)")
       ELSE UNCHANGED <<fails, risk_img, have, layers, warnings>>
    /\ UNCHANGED <<rasterVars, mean_risk, rating, waterVars, rows, uiVars, s2_img,
                   map_rendered, sample_pt, sessVars, uncaught>>

\* lines 438-460: LayerControl, st_folium, status bar (its own try/except).
\* The widget's key is the current second: under a new key the widget is a
\* new one and returns no drawings.
Render(from, to) ==
    /\ pc = from
    /\ pc' = to
    /\ map_rendered' = TRUE
    /\ \E same_key \in BOOLEAN : out' = IF same_key THEN out ELSE NoDrawings
    /\ UNCHANGED <<rasterVars, riskVars, waterVars, rows, uiVars, s2_img, mapVars,
                   sample_pt, uncaught, fails, session, box_m, new_aoi, trigger,
                   dates_ok, aoi_reruns>>

\* ee.Geometry(new_aoi).centroid(1).coordinates(): [lon, lat], here the mean
\* of the vertices (the closing vertex of a ring left out)
Centroid(geom) ==
    LET cs == geom.coordinates
        n == IF Len(cs) > 1 THEN Len(cs) - 1 ELSE Len(cs)
        sum(k) == SumOver([i \in 1..n |-> cs[i][k]], 1..n)
    IN <<sum(1) \div n, sum(2) \div n>>

\* lines 511-523: extract_draw (outside any try); a polygon that differs from
\* the stored AOI is stored, the map recentred if the centroid can be had,
\* and the script reruns
ExtractDraw(from, to) ==
    /\ pc = from
    /\ LET r == extract_draw(OrEmpty(out))
       IN IF r.err # "none"
          THEN /\ pc' = "aborted"
               /\ uncaught' = r.err
               /\ UNCHANGED <<new_aoi, sample_pt, session, aoi_reruns, fails>>
          ELSE /\ new_aoi' = r.new_aoi
               /\ sample_pt' = r.sample_pt
               /\ UNCHANGED uncaught
               /\ IF Truthy(r.new_aoi) /\ ~geojson_equal(r.new_aoi, session.aoi_geojson)
                  THEN \E o \in CallOutcomes :
                         LET can == o = "ok" /\ r.new_aoi.coordinates # <<>>
                             cen == Centroid(r.new_aoi)
                         IN /\ fails' = fails + Cost(o)
                            /\ session' =
                                 [session EXCEPT
                                    !.aoi_geojson = r.new_aoi,
                                    !.center = IF can THEN <<cen[2], cen[1]>> ELSE @]
                            /\ aoi_reruns' = Min(aoi_reruns + 1, MaxReruns)
                            /\ pc' = "rerun"
                  ELSE /\ pc' = to
                       /\ UNCHANGED <<session, aoi_reruns, fails>>
    /\ UNCHANGED <<rasterVars, riskVars, waterVars, rows, uiVars, s2_img, mapVars,
                   map_rendered, box_m, out, trigger, dates_ok>>

\* "if sample_pt: try: ... except Exception as e: st.warning(...)"
PointSample(from, to) ==
    /\ pc = from
    /\ pc' = to
    /\ IF Truthy(sample_pt)
       THEN \E o \in CallOutcomes :
              /\ fails' = fails + Cost(o)
              /\ warnings' = IF o = "raised"
                             THEN warnings \cup {<<"Point sampling failed">>}
                             ELSE warnings
       ELSE UNCHANGED <<fails, warnings>>
    /\ UNCHANGED <<rasterVars, riskVars, waterVars, rows, uiVars, s2_img, have,
                   layers, map_rendered, sample_pt, sessVars, uncaught>>

\* lines 574-587: only getInfo() is inside the try; float(None) of a statistic
\* that is None raises TypeError outside it and ends the script run
SummaryNdvi(from, to) ==
    /\ pc = from
    /\ IF s2_img # "None"
       THEN \E o \in CallOutcomes :
              LET vals == reduce_stats(ndvi_img)
              IN /\ fails' = fails + Cost(o)
                 /\ IF o = "raised"
                    THEN /\ pc' = to
                         /\ UNCHANGED <<rows, uncaught>>
                    ELSE IF ~vals.NDVI_mean.ok
                    THEN /\ pc' = "aborted"
                         /\ uncaught' = "TypeError"
                         /\ UNCHANGED rows
                    ELSE /\ pc' = to
                         /\ rows' = rows \o << <<"Mean NDVI", vals.NDVI_mean.v>>,
                                              <<"StdDev NDVI", vals.NDVI_stdDev.v>>,
                                              <<"P10 NDVI", vals.NDVI_p10.v>>,
                                              <<"Median NDVI", vals.NDVI_p50.v>>,
                                              <<"P90 NDVI", vals.NDVI_p90.v>> >>
                         /\ UNCHANGED uncaught
       ELSE /\ pc' = to
            /\ UNCHANGED <<fails, rows, uncaught>>
    /\ UNCHANGED <<rasterVars, riskVars, waterVars, uiVars, s2_img, mapVars,
                   map_rendered, sample_pt, sessVars>>

\* "if s2_img is not None and show_water: try: wp = compute_water_pct(ndwi_tmp,
\* AOI, thresh=0.2, scale=10); if wp is not None: rows.append(...) except: pass"
SummaryWater(from, to) ==
    /\ pc = from
    /\ pc' = to
    /\ IF s2_img # "None" /\ show.water
       THEN \E o \in CallOutcomes :
              LET wp == IF o = "ok" THEN compute_water_pct(ndwi_img, thresh_default)
                        ELSE Null
              IN /\ fails' = fails + Cost(o)
                 /\ water_pct' = wp
                 /\ rows' = IF wp.ok
                             THEN Append(rows, <<"Water % (NDWI>0.2)", wp.v>>)
                             ELSE rows
       ELSE UNCHANGED <<fails, water_pct, rows>>
    /\ UNCHANGED <<rasterVars, riskVars, water, uiVars, s2_img, mapVars,
                   map_rendered, sample_pt, sessVars, uncaught>>

\* "if s2_img is not None and show_erosion: try: ... except Exception: pass"
SummaryErosion(from, to) ==
    /\ pc = from
    /\ pc' = to
    /\ IF s2_img # "None" /\ show.erosion
       THEN \E o \in CallOutcomes :
              LET risk_tmp == erosion_risk_layer(slope_deg, tex, ndvi_img)
                  m == Mean(risk_tmp.img)
              IN /\ fails' = fails + Cost(o)
                 /\ IF o = "raised" \/ risk_tmp.err # "none"
                    THEN \* getInfo() raises; the except clause swallows it
                         UNCHANGED <<mean_risk, rating, rows>>
                    ELSE /\ mean_risk' = m
                         /\ IF m.ok
                            THEN /\ rating' = Rating(m.v)
                                 /\ rows' = rows \o
                                       << <<"Erosion risk (0-1)", Round2(m.v)>>,
                                          <<"Erosion rating", Rating(m.v)>> >>
                            ELSE UNCHANGED <<rating, rows>>
       ELSE UNCHANGED <<fails, mean_risk, rating, rows>>
    /\ UNCHANGED <<rasterVars, risk_img, waterVars, uiVars, s2_img, mapVars,
                   map_rendered, sample_pt, sessVars, uncaught>>

\* lines 645-667: "try: ... except Exception as e: st.error(...)"
TimeSeries(from, to) ==
    /\ pc = from
    /\ pc' = to
    /\ \E o \in CallOutcomes :
          /\ fails' = fails + Cost(o)
          /\ warnings' = IF o = "raised"
                         THEN warnings \cup {<<"Time-series failed">>}
                         ELSE warnings
    /\ UNCHANGED <<rasterVars, riskVars, waterVars, rows, uiVars, s2_img, have,
                   layers, map_rendered, sample_pt, sessVars, uncaught>>

\* lines 672-707: the quick previews (each in "try: ... except: pass") and
\* the export button ("try: ... except Exception as e: st.error(...)")
PreviewsAndExport(from, to) ==
    /\ pc = from
    /\ pc' = to
    /\ \E clicked \in BOOLEAN : \E o \in CallOutcomes :
          /\ (~(s2_img # "None" /\ clicked)) => o = "ok"
          /\ fails' = fails + Cost(o)
          /\ warnings' = IF o = "raised"
                         THEN warnings \cup {<<"Export failed">>}
                         ELSE warnings
    /\ UNCHANGED <<rasterVars, riskVars, waterVars, rows, uiVars, s2_img, have,
                   layers, map_rendered, sample_pt, sessVars, uncaught>>

\* risk_img = None
NoImage == [c \in Cells |-> NoDataPx]
NoRisk == [err |-> "unset", p95 |-> Null, d |-> Null, raw |-> NoImage,
           S |-> [c \in Cells |-> 0], K |-> NoImage, C |-> NoImage,
           img |-> NoImage]

\* --------------------------------------------------- top of the script
NoSession == [keys |-> {}, center |-> <<0, 0>>, aoi_geojson |-> None]

\* lines 112-116: defaults for the keys the session does not hold yet
SessionDefaults(from, to) ==
    /\ pc = from
    /\ pc' = to
    /\ LET c == IF "center" \in session.keys THEN session.center ELSE default_center
       IN session' =
            [keys |-> session.keys \cup {"center", "aoi_geojson"},
             center |-> c,
             aoi_geojson |-> IF "aoi_geojson" \in session.keys
                             THEN session.aoi_geojson
                             ELSE default_aoi_box(c[1], c[2], 400)]
    /\ UNCHANGED <<rasterVars, riskVars, waterVars, rows, uiVars, s2_img, mapVars,
                   map_rendered, sample_pt, uncaught, fails, box_m, out, new_aoi,
                   trigger, dates_ok, aoi_reruns>>

\* what leafmap.geocode can give for the address typed, at the pole too
GeocodeVals == {<<9000000, 0>>}
GeocodeResults ==
    {[kind |-> "found", latlon |-> g] : g \in GeocodeVals}
        \cup {[kind |-> k, latlon |-> <<0, 0>>] : k \in {"blank", "not_found", "raised"}}

\* lines 130-144: "if go and address.strip(): try: ... except Exception: ...";
\* the rerun leaves through the except clause, which catches Exception only
Geocode(from, to) ==
    /\ pc = from
    /\ IF trigger = "go"
       THEN \E r \in GeocodeResults :
              IF r.kind = "found"
              THEN /\ session' =
                         [session EXCEPT
                            !.center = r.latlon,
                            !.aoi_geojson = default_aoi_box(r.latlon[1], r.latlon[2], box_m)]
                   /\ pc' = "rerun"
                   /\ UNCHANGED warnings
              ELSE /\ warnings' =
                         IF r.kind = "not_found"
                         THEN warnings \cup {<<"Could not geocode that address.">>}
                         ELSE IF r.kind = "raised"
                         THEN warnings \cup {<<"Geocoding failed">>}
                         ELSE warnings
                   /\ pc' = to
                   /\ UNCHANGED session
       ELSE /\ pc' = to
            /\ UNCHANGED <<session, warnings>>
    /\ UNCHANGED <<rasterVars, riskVars, waterVars, rows, uiVars, s2_img, have, layers,
                   map_rendered, sample_pt, uncaught, fails, box_m, out, new_aoi,
                   trigger, dates_ok, aoi_reruns>>

\* lines 151-181: the date check (st.stop), "Force refresh tiles & cache",
\* "Reset AOI to center box"
Sidebar(from, to) ==
    /\ pc = from
    /\ IF ~dates_ok
       THEN /\ pc' = "stopped"
            /\ warnings' = warnings \cup {<<"Start must be before End.">>}
            /\ UNCHANGED session
       ELSE IF trigger = "refresh"
       THEN /\ session' = [session EXCEPT !.keys = @ \cup {"cachebust"}]
            /\ pc' = "rerun"
            /\ UNCHANGED warnings
       ELSE IF trigger = "reset"
       THEN /\ session' =
                  [session EXCEPT
                     !.aoi_geojson = default_aoi_box(session.center[1],
                                                     session.center[2], box_m)]
            /\ pc' = "rerun"
            /\ UNCHANGED warnings
       ELSE /\ pc' = to
            /\ UNCHANGED <<session, warnings>>
    /\ UNCHANGED <<rasterVars, riskVars, waterVars, rows, uiVars, s2_img, have, layers,
                   map_rendered, sample_pt, uncaught, fails, box_m, out, new_aoi,
                   trigger, dates_ok, aoi_reruns>>

\* a new script run starts from the top with the session kept
NewRun ==
    /\ pc' = "top"
    /\ risk_img' = NoRisk
    /\ mean_risk' = Null
    /\ rating' = ""
    /\ water' = {}
    /\ water_pct' = Null
    /\ rows' = <<>>
    /\ have' = NoneHeld
    /\ layers' = {}
    /\ warnings' = {}
    /\ map_rendered' = FALSE
    /\ sample_pt' = None
    /\ new_aoi' = None
    /\ uncaught' = "none"
    /\ fails' = 0
    /\ s2_count' = 0 /\ s1_count' = 0
    /\ s2_img' = "None"
    /\ UNCHANGED <<rasterVars, show, session>>

\* st.experimental_rerun(): the script runs again at once; no button is down
Rerun ==
    /\ pc = "rerun"
    /\ NewRun
    /\ trigger' = "rerun"
    /\ UNCHANGED <<box_m, out, dates_ok, aoi_reruns>>

\* sizes of the "AOI box half-size (meters)" slider
BoxVals == {400, 2000}
\* what the user draws in a session
SessionDrawable == {Feature(PolyA), Feature(PolyA_ct), MultiPolyM, Feature(PointP)}
Events == {"draw", "clear", "go", "reset", "refresh", "dates", "slider"}

\* the user acts on a widget once the run is over: Streamlit runs the script
\* again with that widget's new value
UserActs ==
    /\ pc \in {"done", "stopped", "aborted"}
    /\ NewRun
    /\ aoi_reruns' = 0
    /\ \E ev \in Events : \E f \in SessionDrawable : \E b \in BoxVals :
          /\ trigger' = ev
          /\ ev = "draw" => (out.all_drawings.py # "list"
                               \/ Len(out.all_drawings.items) < MaxKept)
          /\ ev = "slider" => b # box_m
          /\ out' = IF ev = "draw"
                    THEN Out(f, f, List(Append(out.all_drawings.items, f)))
                    ELSE IF ev = "clear" THEN Out(None, None, List(<<>>))
                    ELSE out
          /\ box_m' = IF ev = "slider" THEN b ELSE box_m
          /\ dates_ok' = IF ev = "dates" THEN ~dates_ok ELSE dates_ok

\* ------------------------------------------------------ specifications

AllShown == [ndvi |-> TRUE, ndwi |-> TRUE, water |-> TRUE, sar_vv |-> TRUE,
             soil_texture |-> TRUE, soil_boundaries |-> TRUE, erosion |-> TRUE]
\* the checkboxes' defaults (lines 163-169)
DefaultShown == [ndvi |-> TRUE, ndwi |-> FALSE, water |-> FALSE, sar_vv |-> TRUE,
                 soil_texture |-> FALSE, soil_boundaries |-> FALSE, erosion |-> FALSE]
ShowFields == {"ndvi", "ndwi", "water", "sar_vv", "soil_texture",
               "soil_boundaries", "erosion"}
\* the defaults, everything on, everything on but one, one thing on
ShowConfigs ==
    {DefaultShown, AllShown}
        \cup {[f \in ShowFields |-> f # g] : g \in ShowFields}
        \cup {[f \in ShowFields |-> f = g] : g \in ShowFields}

\* st.session_state after lines 112-116 of the first run
InitialSession ==
    [keys |-> {"center", "aoi_geojson"}, center |-> default_center,
     aoi_geojson |-> default_aoi_box(default_center[1], default_center[2], 400)]

\* a run in a fresh session that nothing has been drawn in
FreshSession ==
    /\ session = InitialSession
    /\ box_m = 400
    /\ trigger = "first"
    /\ dates_ok = TRUE
    /\ aoi_reruns = 0

NothingComputed ==
    /\ risk_img = NoRisk
    /\ mean_risk = Null
    /\ rating = ""
    /\ water = {}
    /\ water_pct = Null
    /\ rows = <<>>
    /\ have = NoneHeld
    /\ layers = {}
    /\ warnings = {}
    /\ map_rendered = FALSE
    /\ sample_pt = None
    /\ new_aoi = None
    /\ uncaught = "none"

\* erosion_risk_layer on every raster of the bounds, with Earth Engine up
RiskInit ==
    /\ pc = "input"
    /\ slope_deg \in [Cells -> SlopeVals]
    /\ tex \in [Cells -> TexVals]
    /\ ndvi_img \in [Cells -> {Px(n) : n \in NdviVals} \cup {NoDataPx}]
    /\ cover \in {w \in [Cells -> CoverVals] : \A c \in Cells \ {1} : w[c] = 20}
    /\ ndwi_img = [c \in WaterCells |-> NoDataPx]
    /\ show = AllShown
    /\ s2_count = 1 /\ s1_count = 1
    /\ s2_img = "img"
    /\ fails = MaxFailures
    /\ NothingComputed
    /\ FreshSession
    /\ out = NoDrawings

RiskNext ==
    \/ ErosionBlock("input", "risk")
    \/ SummaryErosion("risk", "summary")

SpecRisk == RiskInit /\ [][RiskNext]_vars

\* the water mask on every NDWI raster of the bounds, with Earth Engine up
WaterInit ==
    /\ pc = "input"
    /\ ndwi_img \in [WaterCells -> {Px(n) : n \in NdwiVals} \cup {NoDataPx}]
    /\ slope_deg = [c \in Cells |-> 0]
    /\ tex = [c \in Cells |-> 6]
    /\ ndvi_img = [c \in Cells |-> Px(6)]
    /\ cover = [c \in Cells |-> 20]
    /\ show \in {[AllShown EXCEPT !.water = b] : b \in BOOLEAN}
    /\ s2_count = 1 /\ s1_count = 1
    /\ s2_img = "img"
    /\ fails = MaxFailures
    /\ NothingComputed
    /\ FreshSession
    /\ out = NoDrawings

WaterNext ==
    \/ NdwiWaterBlock("input", "overlay")
    \/ SummaryWater("overlay", "summary")

SpecWater == WaterInit /\ [][WaterNext]_vars

\* extract_draw and the AOI block on every draw output of the bounds, with
\* Earth Engine up
DrawInit ==
    /\ pc = "draw"
    /\ out \in AnyOut \cup WidgetOut
    /\ session \in {InitialSession, [InitialSession EXCEPT !.aoi_geojson = PolyA]}
    /\ box_m = 400
    /\ trigger = "draw"
    /\ dates_ok = TRUE
    /\ aoi_reruns = 0
    /\ slope_deg = [c \in Cells |-> 0]
    /\ tex = [c \in Cells |-> 6]
    /\ ndvi_img = [c \in Cells |-> Px(6)]
    /\ cover = [c \in Cells |-> 20]
    /\ ndwi_img = [c \in WaterCells |-> NoDataPx]
    /\ show = AllShown
    /\ s2_count = 1 /\ s1_count = 1
    /\ s2_img = "img"
    /\ fails = MaxFailures
    /\ NothingComputed

DrawNext == ExtractDraw("draw", "sample")

SpecDraw == DrawInit /\ [][DrawNext]_vars

\* the session: script runs from the top, one after another.  The overlay
\* and summary blocks read and write neither st.session_state nor the draw
\* output and are left out here.
SessionInit ==
    /\ pc = "top"
    /\ session = NoSession
    /\ box_m = 400
    /\ out = NoDrawings
    /\ trigger = "first"
    /\ dates_ok = TRUE
    /\ aoi_reruns = 0
    /\ slope_deg = [c \in Cells |-> 0]
    /\ tex = [c \in Cells |-> 6]
    /\ ndvi_img = [c \in Cells |-> Px(6)]
    /\ cover = [c \in Cells |-> 20]
    /\ ndwi_img = [c \in WaterCells |-> NoDataPx]
    /\ show = DefaultShown
    /\ s2_count = 0 /\ s1_count = 0
    /\ s2_img = "None"
    /\ fails = 0
    /\ NothingComputed

SessionNext ==
    \/ SessionDefaults("top", "search")
    \/ Geocode("search", "sidebar")
    \/ Sidebar("sidebar", "render")
    \/ Render("render", "draw")
    \/ ExtractDraw("draw", "sample")
    \/ PointSample("sample", "done")
    \/ Rerun
    \/ UserActs

SpecSession == SessionInit /\ [][SessionNext]_vars

\* one script run from build_map_and_layers on, over an AOI with or without
\* valid soil, NDVI and NDWI pixels
Init ==
    /\ pc = "build"
    /\ slope_deg = [c \in Cells |-> 1000]
    /\ tex \in {[c \in Cells |-> t] : t \in {6, 13}}
    /\ ndvi_img \in {[c \in Cells |-> x] : x \in {Px(6), NoDataPx}}
    /\ cover = [c \in Cells |-> 20]
    /\ ndwi_img = [c \in WaterCells |-> Px(IF c % 2 = 1 THEN 25 ELSE 10)]
    /\ show \in ShowConfigs
    /\ s2_count = 0 /\ s1_count = 0
    /\ s2_img = "None"
    /\ fails = 0
    /\ NothingComputed
    /\ FreshSession
    /\ out \in {NoDrawings, Out(Feature(PointP), Feature(PointP), List(<<Feature(PointP)>>)),
                Out(Feature(PolyA), Feature(PolyA), List(<<Feature(PolyA)>>))}

Next ==
    \/ SceneCounts("build", "ndvi")
    \/ NdviBlock("ndvi", "ndwi")
    \/ NdwiWaterBlock("ndwi", "sar")
    \/ SarBlock("sar", "soil")
    \/ SoilBlock("soil", "erosion")
    \/ ErosionBlock("erosion", "render")
    \/ Render("render", "draw")
    \/ ExtractDraw("draw", "sample")
    \/ PointSample("sample", "sum_ndvi")
    \/ SummaryNdvi("sum_ndvi", "sum_water")
    \/ SummaryWater("sum_water", "sum_erosion")
    \/ SummaryErosion("sum_erosion", "timeseries")
    \/ TimeSeries("timeseries", "previews")
    \/ PreviewsAndExport("previews", "done")

Spec == Init /\ [][Next]_vars

\* ======================================================== erosion risk
RiskDone == pc \in {"risk", "summary"}

\* C1: every value of the image erosion_risk_layer returns lies in [0, 1],
\* whatever the slope, soil class and NDVI of the pixel and of its neighbours.
C1_RiskInUnitInterval ==
    RiskDone =>
        \A c \in Cells :
            risk_img.img[c].ok => (0 <= risk_img.img[c].v /\ risk_img.img[c].v <= 1000)

\* a pixel whose raw product is more than twice the divisor, so that the
\* quotient exceeds 1 and the clamp acts
C1_Witness ==
    /\ pc = "risk"
    /\ \E c \in Cells :
          /\ risk_img.img[c].ok
          /\ risk_img.raw[c].v > 2 * risk_img.d.v
          /\ risk_img.img[c].v = 1000

\* C2: S = 10.8 sin(theta) + 0.03 below 5.14 degrees, 16.8 sin(theta) - 0.50
\* at or above, floored at 0; slope 0 gives 0.03; S is never negative.
C2_SlopeFactor ==
    RiskDone =>
        \A c \in Cells :
            LET sd == slope_deg[c]
                sinT == theta(sd)
                want == IF sd < 514 THEN 108 * sinT + 3000 ELSE 168 * sinT - 50000
            IN /\ risk_img.S[c] = (IF want < 0 THEN 0 ELSE want)
               /\ risk_img.S[c] >= 0
               /\ (sd = 0 => risk_img.S[c] = 3000)

\* pixels just below, at and above the 5.14 degree threshold in one raster
C2_Witness ==
    /\ pc = "risk"
    /\ slope_deg[1] = 514 /\ risk_img.S[1] = 100528
    /\ slope_deg[2] = 513 /\ risk_img.S[2] = 99552

\* C3 as stated: a class outside 1..12 makes the computation fail with
\* UnknownSoilClass.
C3_Original ==
    RiskDone =>
        /\ \A c \in Cells : tex[c] \in 1..12 => risk_img.K[c] = Px(k_values[tex[c]])
        /\ (\E c \in Cells : tex[c] \notin 1..12) => risk_img.err = "UnknownSoilClass"

ErodibilityTable ==
    [t \in 1..12 |->
        CASE t = 1 -> 28 [] t = 2 -> 20 [] t = 3 -> 15 [] t = 4 -> 32
          [] t = 5 -> 38 [] t = 6 -> 40 [] t = 7 -> 25 [] t = 8 -> 22
          [] t = 9 -> 26 [] t = 10 -> 17 [] t = 11 -> 20 [] t = 12 -> 15]

\* the lookup itself, on every class of the table and on classes around it
KTableAsClaimed ==
    /\ \A t \in 1..12 : K(t) = Px(ErodibilityTable[t])
    /\ \A t \in {-1, 0, 13, 14} : ~K(t).ok

\* C3 (amended): classes 1..12 map to the table; a class outside 1..12 raises
\* nothing: its pixel is masked in K and in the risk image (no risk value),
\* and the other pixels are computed as usual.
C3_UnknownClassMasked ==
    /\ KTableAsClaimed
    /\ RiskDone =>
          \A c \in Cells :
              /\ tex[c] \in 1..12 => risk_img.K[c] = Px(ErodibilityTable[tex[c]])
              /\ tex[c] \notin 1..12 =>
                    /\ ~risk_img.K[c].ok
                    /\ ~risk_img.img[c].ok
                    /\ risk_img.err \in {"none", "EEException"}
                    /\ (risk_img.err = "EEException" <=> \A d \in Cells : ~risk_img.raw[d].ok)

\* class 13 beside a mapped class: the run goes on and the other pixel has a risk
C3_Witness ==
    /\ pc = "risk"
    /\ tex[1] = 13 /\ tex[2] = 6
    /\ risk_img.err = "none"
    /\ ~risk_img.img[1].ok
    /\ risk_img.img[2].ok /\ risk_img.K[2].v = 40

NoValidPixels == \A c \in Cells : ~(K(tex[c]).ok /\ ndvi_img[c].ok)

\* C4 as stated: with no valid pixel the computation fails with
\* InsufficientData, and not silently.
C4_Original ==
    (pc = "summary" /\ NoValidPixels) =>
        /\ risk_img.err = "InsufficientData"
        /\ \A c \in Cells : ~risk_img.img[c].ok

\* C4 (amended): with no valid pixel the percentile is null and evaluating
\* the risk image raises Earth Engine's own exception (there is no
\* InsufficientData); no normalized value is returned, and the AOI summary
\* swallows the exception: no mean, no rating, no row.
C4_NoValidPixels ==
    /\ (RiskDone /\ NoValidPixels) =>
          /\ ~risk_img.p95.ok
          /\ risk_img.err = "EEException"
          /\ \A c \in Cells : ~risk_img.img[c].ok
    /\ (pc = "summary" /\ NoValidPixels) =>
          /\ ~mean_risk.ok
          /\ rating = ""
          /\ rows = <<>>
    /\ (RiskDone /\ ~NoValidPixels) => risk_img.err = "none"

C4_Witness ==
    /\ pc = "summary"
    /\ NoValidPixels
    /\ \E c \in Cells : ~ndvi_img[c].ok
    /\ risk_img.err = "EEException"
    /\ rows = <<>>

\* C5: C = 1 - clamp(ndvi, 0, 1): 1 for ndvi <= 0, 0 for ndvi >= 1, 1 - ndvi
\* in between; so C is in [0, 1] and non-increasing in ndvi.
C5_CoverFactor ==
    RiskDone =>
        /\ \A c \in Cells :
              ndvi_img[c].ok =>
                  LET n == ndvi_img[c].v
                      cf == risk_img.C[c]
                  IN /\ cf.ok
                     /\ n <= 0 => cf.v = 10
                     /\ n >= 10 => cf.v = 0
                     /\ (0 < n /\ n < 10) => cf.v = 10 - n
                     /\ 0 <= cf.v /\ cf.v <= 10
        /\ \A a, b \in Cells :
              (ndvi_img[a].ok /\ ndvi_img[b].ok /\ ndvi_img[a].v <= ndvi_img[b].v)
                  => risk_img.C[a].v >= risk_img.C[b].v

C5_Witness ==
    /\ pc = "risk"
    /\ ndvi_img[1] = Px(15) /\ risk_img.C[1] = Px(0)
    /\ ndvi_img[2] = Px(6) /\ risk_img.C[2] = Px(4)

\* C6: the raw product is divided by max(p95, 1e-6) and then clamped: the
\* divisor is positive, the risk is the clamped quotient, and a pixel at or
\* above a percentile >= 1e-6 has risk exactly 1.
C6_Normalization ==
    (RiskDone /\ risk_img.err = "none") =>
        LET p == risk_img.p95.v
            d == risk_img.d.v
        IN /\ risk_img.p95.ok
           /\ p \in {risk_img.raw[c].v : c \in Valid(risk_img.raw)}
           /\ d = (IF p >= 1 THEN p ELSE 1)
           /\ d > 0
           /\ \A c \in Cells :
                 risk_img.raw[c].ok =>
                     LET raw == risk_img.raw[c].v
                         r == risk_img.img[c].v
                     IN /\ (raw >= p /\ p >= 1) => r = 1000
                        /\ r < 1000 =>
                              (r * d <= raw * 1000 /\ raw * 1000 < (r + 1) * d)
                        /\ r = 1000 => raw >= d

\* the percentile is 0 (below the floor) and a pixel has raw product 0
C6_Witness ==
    /\ pc = "risk"
    /\ risk_img.err = "none"
    /\ risk_img.p95.v = 0
    /\ risk_img.d.v = 1
    /\ \E c \in Cells : risk_img.raw[c].ok /\ risk_img.raw[c].v = 0 /\ risk_img.img[c].v = 0

\* the rating of every mean from 0 to 1 in steps of 0.001
RatingOfEveryMean ==
    \A m \in 0..1000 :
        /\ Rating(m) = "Low" <=> m < 330
        /\ Rating(m) = "Moderate" <=> (330 <= m /\ m < 660)
        /\ Rating(m) = "High" <=> m >= 660

\* C7: the rating is "Low" exactly for mean < 0.33, "Moderate" exactly for
\* 0.33 <= mean < 0.66, "High" exactly for mean >= 0.66.
C7_RatingBuckets ==
    /\ RatingOfEveryMean
    /\ (pc = "summary" /\ mean_risk.ok) =>
          /\ rating = "Low" <=> mean_risk.v < 330
          /\ rating = "Moderate" <=> (330 <= mean_risk.v /\ mean_risk.v < 660)
          /\ rating = "High" <=> mean_risk.v >= 660
          /\ rows = << <<"Erosion risk (0-1)", Round2(mean_risk.v)>>,
                       <<"Erosion rating", rating>> >>

\* a mean of exactly 0.66, rated "High"
C7_Witness ==
    /\ pc = "summary"
    /\ mean_risk = Px(660)
    /\ rating = "High"
    /\ rows = << <<"Erosion risk (0-1)", 66>>, <<"Erosion rating", "High">> >>

\* C9: for fixed S and C, a pixel's risk is non-decreasing in K: giving the
\* pixel a soil class with a larger K never lowers its risk.
C9_MonotoneInK ==
    pc = "risk" =>
        \A c \in Cells : \A t2 \in 1..12 :
            (tex[c] \in 1..12 /\ K(t2).v >= K(tex[c]).v) =>
                LET new == erosion_risk_layer(slope_deg, [tex EXCEPT ![c] = t2], ndvi_img)
                IN risk_img.img[c].ok =>
                       /\ new.img[c].ok
                       /\ new.img[c].v >= risk_img.img[c].v

\* a pixel below the percentile, whose risk really rises with K
C9_Witness ==
    /\ pc = "risk"
    /\ \E c \in Cells :
          /\ tex[c] = 4
          /\ risk_img.img[c].ok /\ risk_img.img[c].v \in 1..999
          /\ erosion_risk_layer(slope_deg, [tex EXCEPT ![c] = 6], ndvi_img).img[c].v
                 > risk_img.img[c].v

\* ========================================================== water mask
WaterPixels == {c \in WaterCells : ndwi_img[c].ok /\ ndwi_img[c].v > 20}

\* C8: a pixel is water exactly when its NDWI is strictly greater than the
\* threshold 0.2 (a pixel equal to it is not water); the map overlay and
\* compute_water_pct use the same comparison and the same threshold.
C8_WaterMask ==
    /\ (pc \in {"overlay", "summary"} /\ show.water) =>
          /\ water = WaterPixels
          /\ \A c \in WaterCells : ndwi_img[c] = Px(20) => c \notin water
    /\ (pc = "summary" /\ show.water) =>
          /\ water_pct.ok <=> water # {}
          /\ water_pct.ok =>
                /\ water_pct.v * NumWaterCells <= 10000 * Cardinality(water) + NumWaterCells \div 2
                /\ water_pct.v * NumWaterCells >= 10000 * Cardinality(water) - NumWaterCells \div 2
                /\ rows = << <<"Water % (NDWI>0.2)", water_pct.v>> >>

\* the scenario ndwi = [-0.5, 0.1, 0.25, 0.9]
C8_Witness ==
    /\ pc = "summary"
    /\ ndwi_img[1] = Px(-50) /\ ndwi_img[2] = Px(10)
    /\ ndwi_img[3] = Px(25) /\ ndwi_img[4] = Px(90)
    /\ water = {3, 4}
    /\ water_pct = Px(5000)

\* ===================================================== failure containment
AfterRender == {"draw", "rerun", "sample", "sum_ndvi", "sum_water", "sum_erosion",
                "timeseries", "previews", "done", "aborted"}

\* C10: a failure while computing any one overlay or summary metric never
\* aborts the script run: no exception escapes, no run stops before its last
\* section, and once the overlays are built the map is rendered.
C10_Original ==
    /\ uncaught = "none"
    /\ pc # "aborted"
    /\ pc \in AfterRender => map_rendered

\* where the run is aborted: scenes exist, the AOI holds no valid NDVI pixel,
\* the map is on screen and the summary, time-series and export are not
C10_Witness ==
    /\ pc = "aborted"
    /\ uncaught = "TypeError"
    /\ s2_img # "None"
    /\ Valid(ndvi_img) = {}
    /\ map_rendered
    /\ rows = <<>>

\* ============================================================ extract_draw
Returned == pc \in {"sample", "rerun"}

ReturnsAreTyped ==
    Returned =>
        /\ new_aoi = None \/ (new_aoi.py = "dict" /\ TypeOf(new_aoi) \in PolygonTypes)
        /\ sample_pt = None \/ (sample_pt.py = "dict" /\ TypeOf(sample_pt) = "Point")

IsPoly(feat) ==
    LET g == _get_geom_from_feature(feat)
    IN Truthy(g) /\ TypeOf(g) \in PolygonTypes

\* C13: the new AOI is the polygon of last_drawn_feature; failing that, the
\* polygon of last_active_drawing; failing that, the most recently added
\* polygon among the last five entries of all_drawings; failing that, None.
C13_Precedence ==
    Returned =>
        LET o == OrEmpty(out)
            isDict == o.py = "dict"
            items == IF isDict /\ o.all_drawings.py = "list"
                     THEN o.all_drawings.items ELSE <<>>
            n == Len(items)
            recent == {i \in 1..n : i > n - 5 /\ IsPoly(items[i])}
            last == CHOOSE i \in recent : \A j \in recent : j <= i
            inDrawn == isDict /\ IsPoly(o.last_drawn_feature)
            inActive == isDict /\ IsPoly(o.last_active_drawing)
        IN /\ inDrawn => new_aoi = _get_geom_from_feature(o.last_drawn_feature)
           /\ (~inDrawn /\ inActive) =>
                 new_aoi = _get_geom_from_feature(o.last_active_drawing)
           /\ (~inDrawn /\ ~inActive /\ recent # {}) =>
                 new_aoi = _get_geom_from_feature(items[last])
           /\ (~inDrawn /\ ~inActive /\ recent = {}) => new_aoi = None

\* six drawings, the only rectangle being the oldest: it is not taken
C13_Witness ==
    /\ pc = "sample"
    /\ out = Out(Feature(PointQ), None,
                 List(<<Feature(PolyA), Feature(PointP), Feature(PointP),
                        Feature(PointP), Feature(PointP), Feature(PointP)>>))
    /\ new_aoi = None
    /\ sample_pt = PointQ

\* ================================================================ session
\* equal as key-sorted JSON: the same keys, whatever their order, with the
\* same values
SameJson(a, b) ==
    /\ a.py = b.py
    /\ {a.keys[i] : i \in 1..Len(a.keys)} = {b.keys[i] : i \in 1..Len(b.keys)}
    /\ a.type = b.type
    /\ a.coordinates = b.coordinates
    /\ a.geometry = b.geometry

IsPolygonGeom(g) == g.py = "dict" /\ g.keys # <<>> /\ g.type \in {"Polygon", "MultiPolygon"}

\* C11: the AOI block replaces the stored AOI and asks for a rerun exactly
\* when extract_draw yields a polygon that differs, as key-sorted JSON, from
\* the stored AOI; so while the user does nothing the block asks for at most
\* one rerun, and the run that follows it ends with the stored AOI equal to
\* the polygon drawn.
C11_RerunOnce ==
    /\ [][pc = "draw" =>
            LET r == extract_draw(OrEmpty(out))
                differs == /\ r.err = "none"
                           /\ IsPolygonGeom(r.new_aoi)
                           /\ ~SameJson(r.new_aoi, session.aoi_geojson)
            IN /\ (pc' = "rerun") <=> differs
               /\ differs => session'.aoi_geojson = r.new_aoi
               /\ ~differs => session' = session]_vars
    /\ [](aoi_reruns <= 1)
    /\ []((pc \in {"sample", "done"} /\ IsPolygonGeom(new_aoi))
              => SameJson(new_aoi, session.aoi_geojson))

\* the run after the one rerun: the widget returned the same rectangle, the
\* stored AOI is that rectangle and the run went to its end
C11_Witness ==
    /\ pc = "done"
    /\ trigger = "rerun"
    /\ aoi_reruns = 1
    /\ out = Out(Feature(PolyA), Feature(PolyA), List(<<Feature(PolyA)>>))
    /\ new_aoi = PolyA
    /\ session.aoi_geojson = PolyA

DrawnPolygons == {PolyA, PolyA_ct, PolyB, PolyC, MultiPolyM}
KnownCenters ==
    {default_center} \cup GeocodeVals
        \cup {<<Centroid(g)[2], Centroid(g)[1]>> : g \in DrawnPolygons}

\* a default_aoi_box polygon: a closed ring of five points
IsDefaultBox(g) ==
    /\ g.type = "Polygon"
    /\ Len(g.coordinates) = 5
    /\ g.coordinates[1] = g.coordinates[5]
    /\ \E c \in KnownCenters : \E h \in BoxVals : g = default_aoi_box(c[1], c[2], h)

\* C14: once the session is initialised it holds "center", a lat/lon pair,
\* and "aoi_geojson", which is a default_aoi_box polygon (a closed 5-point
\* ring) or a drawn Polygon/MultiPolygon, never a Point or None.
C14_AoiIsPolygon ==
    (pc # "top" \/ trigger # "first") =>
        /\ {"center", "aoi_geojson"} \subseteq session.keys
        /\ session.center \in KnownCenters
        /\ Len(session.center) = 2
        /\ session.aoi_geojson.py = "dict"
        /\ session.aoi_geojson.type \in {"Polygon", "MultiPolygon"}
        /\ IsDefaultBox(session.aoi_geojson) \/ session.aoi_geojson \in DrawnPolygons

\* a MultiPolygon is stored and the map recentred on it; the marker drawn
\* afterwards is the sample point and leaves the stored AOI alone
C14_Witness ==
    /\ pc = "done"
    /\ session.aoi_geojson = MultiPolyM
    /\ session.center = <<150, 750>>
    /\ sample_pt = PointP
    /\ out.last_drawn_feature = Feature(PointP)

====
